---------------------------- MODULE Spec2Model ----------------------------
(***************************************************************************)
(* Model of the hostfile crate (src/src/lib.rs): the entry parser          *)
(* HostEntry::from_str and the file driver parse_file.                     *)
(*                                                                         *)
(* A string is a sequence of one-character strings.  The character FF      *)
(* (form feed) stands for the Unicode White_Space characters other than    *)
(* space and tab: str::trim_start and str::split_whitespace treat it as    *)
(* whitespace, the separator test of from_str does not.                    *)
(***************************************************************************)
EXTENDS Integers, Sequences, FiniteSets, TLC

FF == "\f"

(***************************************************************************)
(* Character classes.                                                      *)
(***************************************************************************)
\* char::is_whitespace, as used by trim_start and split_whitespace
IsWhitespace(c) == c \in {" ", "\t", FF}

DecDigits == <<"0", "1", "2", "3", "4", "5", "6", "7", "8", "9">>
HexLower == <<"a", "b", "c", "d", "e", "f">>
HexUpper == <<"A", "B", "C", "D", "E", "F">>

\* char::to_digit(radix) for radix 10 and 16; -1 stands for None
ToDigit(c, radix) ==
    IF \E i \in 1..10 : DecDigits[i] = c
    THEN (CHOOSE i \in 1..10 : DecDigits[i] = c) - 1
    ELSE IF radix > 10 /\ \E i \in 1..6 : HexLower[i] = c
    THEN (CHOOSE i \in 1..6 : HexLower[i] = c) + 9
    ELSE IF radix > 10 /\ \E i \in 1..6 : HexUpper[i] = c
    THEN (CHOOSE i \in 1..6 : HexUpper[i] = c) + 9
    ELSE -1

\* the closure of parse_ip: a character that cannot belong to the address token
IsNonIpChar_Decimal(c) == c # "." /\ c # ":" /\ ToDigit(c, 10) = -1
IsNonIpChar(c) == c # "." /\ c # ":" /\ ToDigit(c, 16) = -1

(***************************************************************************)
(* std::net address parsing, reached through ip.parse() in parse_ip.       *)
(* A parser result is [ok, pos, val]: pos is the index of the next         *)
(* unread character.                                                       *)
(***************************************************************************)
PFail(pos) == [ok |-> FALSE, pos |-> pos, val |-> <<>>]

\* a local binding (Rust's let): e is evaluated once and body is applied to
\* its value
Let(e, Body(_)) == CHOOSE out \in { Body(v) : v \in {e} } : TRUE

RECURSIVE DigitRun(_, _, _, _, _)
DigitRun(s, pos, radix, cnt, acc) ==
    IF pos <= Len(s) /\ ToDigit(s[pos], radix) # -1
    THEN DigitRun(s, pos + 1, radix, cnt + 1, acc * radix + ToDigit(s[pos], radix))
    ELSE [pos |-> pos, cnt |-> cnt, val |-> acc]

\* Parser::read_number(radix, Some(maxDigits), allowZeroPrefix) into a type
\* whose largest value is maxVal
ReadNumber(s, pos, radix, maxDigits, allowZeroPrefix, maxVal) ==
    LET Body(r) ==
            IF r.cnt = 0 \/ r.cnt > maxDigits \/ r.val > maxVal
            THEN PFail(pos)
            ELSE IF ~allowZeroPrefix /\ s[pos] = "0" /\ r.cnt > 1
            THEN PFail(pos)
            ELSE [ok |-> TRUE, pos |-> r.pos, val |-> r.val]
    IN  Let(DigitRun(s, pos, radix, 0, 0), Body)

\* Parser::read_separator(sep, index, inner): the position after the
\* separator, or 0 when the separator is required and absent
AfterSeparator(s, pos, sep, index) ==
    IF index = 0 THEN pos
    ELSE IF pos <= Len(s) /\ s[pos] = sep THEN pos + 1
    ELSE 0

RECURSIVE ReadIpv4Groups(_, _, _, _)
ReadIpv4Groups(s, pos, i, groups) ==
    IF i = 4 THEN [ok |-> TRUE, pos |-> pos, val |-> groups]
    ELSE LET p == AfterSeparator(s, pos, ".", i)
             Body(n) ==
                 IF ~n.ok THEN PFail(pos)
                 ELSE ReadIpv4Groups(s, n.pos, i + 1, Append(groups, n.val))
         IN  IF p = 0 THEN PFail(pos)
             ELSE Let(ReadNumber(s, p, 10, 3, FALSE, 255), Body)

\* Parser::read_ipv4_addr
ReadIpv4Addr(s, pos) ==
    LET Body(r) == IF r.ok THEN r ELSE PFail(pos)
    IN  Let(ReadIpv4Groups(s, pos, 0, <<>>), Body)

\* read_groups inside Parser::read_ipv6_addr: [pos, groups, ipv4]
RECURSIVE ReadGroups(_, _, _, _, _)
ReadGroups(s, pos, limit, i, groups) ==
    IF i >= limit THEN [pos |-> pos, groups |-> groups, ipv4 |-> FALSE]
    ELSE LET p == AfterSeparator(s, pos, ":", i)
             Group(g) ==
                 IF g.ok
                 THEN ReadGroups(s, g.pos, limit, i + 1, Append(groups, g.val))
                 ELSE [pos |-> pos, groups |-> groups, ipv4 |-> FALSE]
             Body(v4) ==
                 IF v4.ok
                 THEN [pos |-> v4.pos,
                       groups |-> groups \o <<v4.val[1] * 256 + v4.val[2],
                                               v4.val[3] * 256 + v4.val[4]>>,
                       ipv4 |-> TRUE]
                 ELSE IF p = 0 THEN [pos |-> pos, groups |-> groups, ipv4 |-> FALSE]
                 ELSE Let(ReadNumber(s, p, 16, 4, TRUE, 65535), Group)
         IN  Let(IF i < limit - 1 /\ p # 0 THEN ReadIpv4Addr(s, p) ELSE PFail(pos),
                 Body)

Zeros(n) == [k \in 1..n |-> 0]

\* Parser::read_ipv6_addr
ReadIpv6Addr(s, pos) ==
    LET Back(head, tail) ==
            [ok |-> TRUE, pos |-> tail.pos,
             val |-> head.groups
                     \o Zeros(8 - Len(head.groups) - Len(tail.groups))
                     \o tail.groups]
        Front(head) ==
            IF Len(head.groups) = 8
            THEN [ok |-> TRUE, pos |-> head.pos, val |-> head.groups]
            ELSE IF head.ipv4 THEN PFail(pos)
            ELSE IF ~(head.pos + 1 <= Len(s) /\ s[head.pos] = ":"
                                             /\ s[head.pos + 1] = ":")
            THEN PFail(pos)
            ELSE LET Rest(tail) == Back(head, tail)
                 IN  Let(ReadGroups(s, head.pos + 2, 8 - (Len(head.groups) + 1),
                                    0, <<>>),
                         Rest)
    IN  Let(ReadGroups(s, pos, 8, 0, <<>>), Front)

\* <IpAddr as FromStr>::from_str: read_ip_addr (IPv4 first, else IPv6), then
\* the whole input must have been consumed
ParseIpAddr(tok) ==
    LET V6(v6) ==
            IF v6.ok /\ v6.pos > Len(tok)
            THEN [ok |-> TRUE, ip |-> [family |-> "V6", segments |-> v6.val]]
            ELSE [ok |-> FALSE]
        V4(v4) ==
            IF v4.ok
            THEN IF v4.pos > Len(tok)
                 THEN [ok |-> TRUE, ip |-> [family |-> "V4", octets |-> v4.val]]
                 ELSE [ok |-> FALSE]
            ELSE Let(ReadIpv6Addr(tok, 1), V6)
    IN  Let(ReadIpv4Addr(tok, 1), V4)

(***************************************************************************)
(* The entry parser: parse_ip and <HostEntry as FromStr>::from_str.        *)
(***************************************************************************)
\* str::find with the closure of parse_ip: the index of the first character
\* outside the address alphabet, Len(input) + 1 for None
RECURSIVE FindNonIpChar(_, _)
FindNonIpChar(input, i) ==
    IF i > Len(input) THEN i
    ELSE IF IsNonIpChar(input[i]) THEN i
    ELSE FindNonIpChar(input, i + 1)

\* parse_ip: split at the first non-address character, parse the front
ParseIp(input) ==
    LET Split(non_ip_char_idx) ==
            LET Parsed(parsed) ==
                    IF parsed.ok
                    THEN [ok |-> TRUE, ip |-> parsed.ip,
                          remainder |-> SubSeq(input, non_ip_char_idx, Len(input))]
                    ELSE [ok |-> FALSE]
            IN  Let(ParseIpAddr(SubSeq(input, 1, non_ip_char_idx - 1)), Parsed)
    IN  Let(FindNonIpChar(input, 1), Split)

RECURSIVE TrimStart_SpacesOnly(_)
TrimStart_SpacesOnly(s) ==
    IF s # <<>> /\ Head(s) = " " THEN TrimStart_SpacesOnly(Tail(s)) ELSE s

\* str::trim_start
RECURSIVE TrimStart(_)
TrimStart(s) ==
    IF s # <<>> /\ IsWhitespace(Head(s)) THEN TrimStart(Tail(s)) ELSE s

\* str::split_whitespace: the maximal runs of non-whitespace, in order
RECURSIVE SplitWhitespace(_, _, _)
SplitWhitespace(s, cur, out) ==
    IF s = <<>> THEN (IF cur = <<>> THEN out ELSE Append(out, cur))
    ELSE IF IsWhitespace(Head(s))
    THEN SplitWhitespace(Tail(s), <<>>, IF cur = <<>> THEN out ELSE Append(out, cur))
    ELSE SplitWhitespace(Tail(s), Append(cur, Head(s)), out)

StartsWithSeparator_AnyWhitespace(input) ==
    input # <<>> /\ IsWhitespace(Head(input))

\* the match on input.chars().next() after the address
StartsWithSeparator(input) ==
    input # <<>> /\ Head(input) \in {" ", "\t"}

RECURSIVE CollectNames_Continue(_, _)
CollectNames_Continue(tokens, names) ==
    IF tokens = <<>> THEN names
    ELSE IF Head(Head(tokens)) = "#" THEN CollectNames_Continue(Tail(tokens), names)
    ELSE CollectNames_Continue(Tail(tokens), Append(names, Head(tokens)))

\* the for loop over input.split_whitespace(): push until a token starts with #
RECURSIVE CollectNames(_, _)
CollectNames(tokens, names) ==
    IF tokens = <<>> THEN names
    ELSE IF Head(Head(tokens)) = "#" THEN names
    ELSE CollectNames(Tail(tokens), Append(names, Head(tokens)))

ErrInvalidIp == "Couldn't parse a valid IP address: invalid IP address syntax"
ErrNoWhitespace == "Expected whitespace after IP"

FromStr(s) ==
    LET Parsed(ip) ==
            IF ~ip.ok THEN [ok |-> FALSE, err |-> ErrInvalidIp]
            ELSE IF ~StartsWithSeparator(ip.remainder)
            THEN [ok |-> FALSE, err |-> ErrNoWhitespace]
            ELSE [ok |-> TRUE,
                  entry |-> [ip |-> ip.ip,
                             names |-> CollectNames(
                                 SplitWhitespace(TrimStart(ip.remainder), <<>>, <<>>),
                                 <<>>)]]
    IN  Let(ParseIp(TrimStart(s)), Parsed)

(***************************************************************************)
(* State.  A call of from_str has the input s and the returned value res;  *)
(* inp records how s was put together.  A call of parse_file has the       *)
(* file system as it finds it (pathKind, lines, readFails), the position   *)
(* in the function (pc), the lines iterator (idx), the locals line_count   *)
(* and entries, the file handle and the returned value.                    *)
(***************************************************************************)
VARIABLES
    s,            \* from_str: the argument
    inp,          \* the parts s was built from: lead, addr, sep, toks, style
    epc,          \* from_str: "call" before the call, "return" after it
    res,          \* from_str: the returned Result
    pathKind,     \* what path names: "missing", "dir", "noperm" or "file"
    lines,        \* the lines the BufReader yields, in file order
    readFails,    \* TRUE when the item after the last line is an io::Error
    pc,           \* parse_file: "check", "open", "loop" or "done"
    open_called,  \* TRUE once File::open has been called
    file,         \* the handle: "none", "open" or "closed"
    idx,          \* the number of items taken from the lines iterator
    line_count,
    entries,
    result        \* parse_file: the returned Result

vars == <<s, inp, epc, res, pathKind, lines, readFails, pc, open_called, file,
          idx, line_count, entries, result>>

entryVars == <<s, inp, epc, res>>
fileVars == <<pathKind, lines, readFails, pc, open_called, file, idx,
              line_count, entries, result>>

None == [none |-> TRUE]

(***************************************************************************)
(* Inputs of from_str.                                                     *)
(***************************************************************************)
MaxLead == 2
MaxNames == 2
MaxLines == 3

V4Addr == <<"1", ".", "1", ".", "1", ".", "1">>
V6Addr == <<":", ":", "1">>

\* candidate address tokens: the first four are address literals
AddrTokens ==
    { V4Addr,
      V6Addr,
      V6Addr \o <<"d">>,
      <<":", ":">> \o V4Addr,
      V4Addr \o <<"d">>,
      <<"1", ".", "1", ".", "1">>,
      <<"2", "5", "6", ".", "1", ".", "1", ".", "1">>,
      <<>> }

\* a name, a name that starts with a hexadecimal letter and has a # inside,
\* and a comment
NameTokens == { <<"h">>, <<"d", "#">>, <<"#", "c">> }

Leads == UNION { [1..k -> {" ", "\t"}] : k \in 0..MaxLead }
Seps == { <<>>, <<" ">>, <<"\t">>, <<FF>>, <<"\t", " ">> }
TokenLists == UNION { [1..k -> NameTokens] : k \in 0..MaxNames }
Styles == { "tight", "loose" }

Gap(style) == IF style = "tight" THEN <<" ">> ELSE <<"\t", FF>>
Trail(style) == IF style = "tight" THEN <<>> ELSE <<" ">>

RECURSIVE Join(_, _)
Join(toks, gap) ==
    IF toks = <<>> THEN <<>>
    ELSE IF Len(toks) = 1 THEN Head(toks)
    ELSE Head(toks) \o gap \o Join(Tail(toks), gap)

\* what follows the address token
After(i) == i.sep \o Join(i.toks, Gap(i.style)) \o Trail(i.style)

Line(i) == i.lead \o i.addr \o After(i)

\* addr is the whole run of address characters: what follows it does not
\* start with one
EntryInputs ==
    { i \in [lead : Leads, addr : AddrTokens, sep : Seps, toks : TokenLists,
             style : Styles] :
        i.sep # <<>> \/ i.toks = <<>> \/ Head(Head(i.toks)) \in {"h", "#"} }

(***************************************************************************)
(* Inputs of parse_file.                                                   *)
(***************************************************************************)
FileLines ==
    { <<>>,
      <<" ", "\t">>,
      <<"#", "c">>,
      <<"\t", "#", "c">>,
      V6Addr \o <<" ", "h">>,
      <<" ">> \o V4Addr \o <<"\t", "h", " ", "d", "#">>,
      V6Addr \o <<" ">>,
      <<"1", ".", "1", ".", "1", " ", "h">>,
      <<"\t">> \o V6Addr \o <<"h">> }

Files == UNION { [1..k -> FileLines] : k \in 0..MaxLines }

(***************************************************************************)
(* from_str as a call.                                                     *)
(***************************************************************************)
InitEntry ==
    /\ inp \in EntryInputs
    /\ s = Line(inp)
    /\ epc = "call"
    /\ res = None
    /\ pathKind = "missing" /\ lines = <<>> /\ readFails = FALSE
    /\ pc = "idle" /\ open_called = FALSE /\ file = "none" /\ idx = 0
    /\ line_count = 0 /\ entries = <<>> /\ result = None

FromStrCall ==
    /\ epc = "call"
    /\ res' = FromStr(s)
    /\ epc' = "return"
    /\ UNCHANGED <<s, inp>>
    /\ UNCHANGED fileVars

NextEntry == FromStrCall

SpecEntry == InitEntry /\ [][NextEntry]_vars

(***************************************************************************)
(* parse_file.                                                             *)
(***************************************************************************)
InitFile ==
    /\ pathKind \in {"missing", "dir", "noperm", "file"}
    /\ lines \in (IF pathKind = "file" THEN Files ELSE {<<>>})
    /\ readFails \in (IF pathKind = "file" THEN BOOLEAN ELSE {pathKind = "dir"})
    /\ pc = "check"
    /\ open_called = FALSE
    /\ file = "none"
    /\ idx = 0
    /\ line_count = 0
    /\ entries = <<>>
    /\ result = None
    /\ inp = None /\ s = <<>> /\ epc = "idle" /\ res = None

\* Path::exists and Path::is_file
Exists(kind) == kind # "missing"
IsFile(kind) == kind \in {"file", "noperm"}

PathRejected_ExistsOnly(kind) == ~Exists(kind)

\* !path.exists() || !path.is_file()
PathRejected(kind) == ~Exists(kind) \/ ~IsFile(kind)

ErrNotRegular == [kind |-> "does not exist or is not a regular file"]
ErrOpen == [kind |-> "Could not open file"]
ErrRead(n) == [kind |-> "Error reading file", line |-> n]
ErrLine(err, n, line) ==
    [kind |-> "parse", err |-> err, line |-> n, content |-> line]

Err(e) == [ok |-> FALSE, err |-> e]
Ok(es) == [ok |-> TRUE, entries |-> es]

CheckPathFail ==
    /\ pc = "check"
    /\ PathRejected(pathKind)
    /\ result' = Err(ErrNotRegular)
    /\ pc' = "done"
    /\ UNCHANGED <<pathKind, lines, readFails, open_called, file, idx,
                   line_count, entries>>
    /\ UNCHANGED entryVars

CheckPathOk ==
    /\ pc = "check"
    /\ ~PathRejected(pathKind)
    /\ pc' = "open"
    /\ UNCHANGED <<pathKind, lines, readFails, open_called, file, idx,
                   line_count, entries, result>>
    /\ UNCHANGED entryVars

OpenFail ==
    /\ pc = "open"
    /\ pathKind = "noperm"
    /\ open_called' = TRUE
    /\ result' = Err(ErrOpen)
    /\ pc' = "done"
    /\ UNCHANGED <<pathKind, lines, readFails, file, idx, line_count, entries>>
    /\ UNCHANGED entryVars

\* File::open succeeds; entries, the lines iterator and line_count are set up
OpenOk ==
    /\ pc = "open"
    /\ pathKind # "noperm"
    /\ open_called' = TRUE
    /\ file' = "open"
    /\ entries' = <<>>
    /\ idx' = 0
    /\ line_count' = 1
    /\ pc' = "loop"
    /\ UNCHANGED <<pathKind, lines, readFails, result>>
    /\ UNCHANGED entryVars

\* the match on line.chars().next(): a comment or an empty line
IsSkipped(line) == IF line = <<>> THEN TRUE ELSE Head(line) = "#"

Push_Front(es, e) == <<e>> \o es
Push(es, e) == Append(es, e)

LineCountAfterSkip_Increment(n) == n + 1
\* continue: the increment at the end of the loop body is not reached
LineCountAfterSkip(n) == n

LoopReadErr ==
    /\ pc = "loop"
    /\ idx = Len(lines)
    /\ readFails
    /\ idx' = idx + 1
    /\ result' = Err(ErrRead(line_count))
    /\ file' = "closed"
    /\ pc' = "done"
    /\ UNCHANGED <<pathKind, lines, readFails, open_called, line_count, entries>>
    /\ UNCHANGED entryVars

LoopSkip ==
    /\ pc = "loop"
    /\ idx < Len(lines)
    /\ IsSkipped(TrimStart(lines[idx + 1]))
    /\ idx' = idx + 1
    /\ line_count' = LineCountAfterSkip(line_count)
    /\ UNCHANGED <<pathKind, lines, readFails, pc, open_called, file, entries,
                   result>>
    /\ UNCHANGED entryVars

LoopParseOk ==
    /\ pc = "loop"
    /\ idx < Len(lines)
    /\ LET line == TrimStart(lines[idx + 1])
       IN  /\ ~IsSkipped(line)
           /\ FromStr(line).ok
           /\ entries' = Push(entries, FromStr(line).entry)
    /\ idx' = idx + 1
    /\ line_count' = line_count + 1
    /\ UNCHANGED <<pathKind, lines, readFails, pc, open_called, file, result>>
    /\ UNCHANGED entryVars

LoopParseErr_Skip ==
    /\ pc = "loop"
    /\ idx < Len(lines)
    /\ LET line == TrimStart(lines[idx + 1])
       IN  /\ ~IsSkipped(line)
           /\ ~FromStr(line).ok
    /\ idx' = idx + 1
    /\ UNCHANGED <<pathKind, lines, readFails, pc, open_called, file,
                   line_count, entries, result>>
    /\ UNCHANGED entryVars

LoopParseErr ==
    /\ pc = "loop"
    /\ idx < Len(lines)
    /\ LET line == TrimStart(lines[idx + 1])
       IN  /\ ~IsSkipped(line)
           /\ ~FromStr(line).ok
           /\ result' = Err(ErrLine(FromStr(line).err, line_count, line))
    /\ idx' = idx + 1
    /\ file' = "closed"
    /\ pc' = "done"
    /\ UNCHANGED <<pathKind, lines, readFails, open_called, line_count, entries>>
    /\ UNCHANGED entryVars

LoopEnd ==
    /\ pc = "loop"
    /\ idx = Len(lines)
    /\ ~readFails
    /\ result' = Ok(entries)
    /\ file' = "closed"
    /\ pc' = "done"
    /\ UNCHANGED <<pathKind, lines, readFails, open_called, idx, line_count,
                   entries>>
    /\ UNCHANGED entryVars

NextFile ==
    \/ CheckPathFail
    \/ CheckPathOk
    \/ OpenFail
    \/ OpenOk
    \/ LoopReadErr
    \/ LoopSkip
    \/ LoopParseOk
    \/ LoopParseErr
    \/ LoopEnd

SpecFile == InitFile /\ [][NextFile]_vars

(***************************************************************************)
(* Properties.  The lines of a file are classified here by position, not   *)
(* by the operators of the model: a line is blank when every character is  *)
(* whitespace, a comment when its first non-whitespace character is #.     *)
(***************************************************************************)
Min(S) == CHOOSE m \in S : \A n \in S : m <= n

IsBlankLine(l) == \A k \in 1..Len(l) : l[k] \in {" ", "\t", FF}
IsCommentLine(l) ==
    \E k \in 1..Len(l) : l[k] = "#" /\ \A j \in 1..(k - 1) : l[j] \in {" ", "\t", FF}
IsEntryLine(l) == ~IsBlankLine(l) /\ ~IsCommentLine(l)

\* the line from its first non-whitespace character on
WithoutLeadingWhitespace(l) ==
    LET rest == { k \in 1..Len(l) : l[k] \notin {" ", "\t", FF} }
    IN  IF rest = {} THEN <<>> ELSE SubSeq(l, Min(rest), Len(l))

\* the positions of the entry lines the entry parser rejects
FailingLines ==
    { k \in 1..Len(lines) : IsEntryLine(lines[k]) /\ ~FromStr(lines[k]).ok }

RECURSIVE EntriesOf(_)
EntriesOf(ls) ==
    IF ls = <<>> THEN <<>>
    ELSE IF IsEntryLine(Head(ls))
    THEN <<FromStr(Head(ls)).entry>> \o EntriesOf(Tail(ls))
    ELSE EntriesOf(Tail(ls))

\* the tokens before the first one that starts with #
BeforeComment(toks) ==
    LET hashes == { k \in 1..Len(toks) : Head(toks[k]) = "#" }
    IN  IF hashes = {} THEN toks ELSE SubSeq(toks, 1, Min(hashes) - 1)

FailedOnLine == pc = "done" /\ ~result.ok /\ result.err.kind = "parse"

\* C1: when parse_file fails on a malformed line, the line number in the
\* error is the 1-based position of that line in the file, comment and blank
\* lines before it counted.
C1_LineNumberIsPosition == FailedOnLine => result.err.line = idx

\* C2: every entry from_str produces has at least one name; an address
\* followed only by whitespace or by a comment is rejected.
C2_NamesNeverEmpty ==
    (epc = "return" /\ res.ok) => Len(res.entry.names) >= 1

\* C3: parse_file is all-or-nothing and stops at the first failure: it
\* returns Ok exactly when every entry line parses; otherwise it returns an
\* Err holding no entries, made of the entry parser's error for the earliest
\* failing entry line and that line without its leading whitespace, and no
\* later line is taken from the file.
C3_AllOrNothing ==
    (pc = "done" /\ pathKind = "file") =>
        IF FailingLines = {}
        THEN readFails \/ result.ok
        ELSE /\ ~result.ok
             /\ DOMAIN result = {"ok", "err"}
             /\ result.err.kind = "parse"
             /\ result.err.err = FromStr(lines[Min(FailingLines)]).err
             /\ result.err.content = WithoutLeadingWhitespace(lines[Min(FailingLines)])
             /\ idx = Min(FailingLines)

C3_Witness ==
    /\ FailedOnLine
    /\ Len(entries) >= 1
    /\ idx < Len(lines)
    /\ Head(lines[idx]) = "\t"

\* C4: an Ok result of parse_file holds exactly the entry parser's results
\* on the lines that are neither blank nor comments, in file order.
C4_EntriesInFileOrder ==
    (pc = "done" /\ result.ok) => result.entries = EntriesOf(lines)

C4_Witness ==
    /\ pc = "done" /\ result.ok
    /\ Len(result.entries) = 2
    /\ result.entries[1] # result.entries[2]
    /\ Len(lines) = 3

\* C5: the names of a parsed line are the whitespace-separated tokens after
\* the address, in order and with duplicates, up to but excluding the first
\* token that starts with #; a # inside a token does not end the list.
C5_NamesUpToComment ==
    (epc = "return" /\ res.ok) => res.entry.names = BeforeComment(inp.toks)

C5_Witness ==
    /\ epc = "return" /\ res.ok
    /\ inp.toks = << <<"d", "#">>, <<"#", "c">> >>
    /\ res.entry.names = << <<"d", "#">> >>

\* C6: when the address token is a valid literal and the character right
\* after it is not a space or a tab (or the input ends there), from_str
\* returns the missing-separator error.
C6_MissingSeparator ==
    (/\ epc = "return"
     /\ ParseIpAddr(inp.addr).ok
     /\ IF After(inp) = <<>> THEN TRUE ELSE Head(After(inp)) \notin {" ", "\t"})
    => res = [ok |-> FALSE, err |-> ErrNoWhitespace]

C6_Witness ==
    /\ epc = "return"
    /\ inp.addr = V4Addr /\ inp.sep = <<>> /\ inp.toks = << <<"h">> >>
    /\ res = [ok |-> FALSE, err |-> ErrNoWhitespace]

\* C7: a prefix of spaces and tabs does not change the outcome of from_str:
\* the result on s is the result on s with any part of its leading run of
\* spaces and tabs removed.
C7_LeadingWhitespaceIgnored ==
    epc = "return" =>
        \A k \in 0..Len(inp.lead) : res = FromStr(SubSeq(s, k + 1, Len(s)))

C7_Witness ==
    /\ epc = "return" /\ res.ok
    /\ inp.lead = <<"\t", " ">>
    /\ Len(res.entry.names) = 2

\* C8 as stated: a directory fails with NotAFile and a nonexistent path with
\* NotFound, two error kinds that tell the cases apart, before any open.
C8_TwoErrorKinds ==
    (pc = "done" /\ pathKind \in {"dir", "missing"}) =>
        /\ ~result.ok
        /\ ~open_called
        /\ result.err.kind \in {"NotAFile", "NotFound"}
        /\ (result.err.kind = "NotAFile") <=> (pathKind = "dir")

\* C8: parse_file on a directory and on a nonexistent path fails with one
\* and the same error, "does not exist or is not a regular file", before
\* File::open is called and with nothing read.
C8_OneErrorBeforeOpen ==
    (pc = "done" /\ pathKind \in {"dir", "missing"}) =>
        /\ result = [ok |-> FALSE, err |-> ErrNotRegular]
        /\ ~open_called
        /\ file = "none"
        /\ idx = 0

C8_Witness ==
    pc = "done" /\ pathKind = "dir" /\ ~result.ok /\ ~open_called

\* C9: the candidate address token is the whole run of address characters
\* after the leading whitespace; when it is not a valid literal from_str
\* returns the invalid-address error whatever follows, also when a valid
\* address is directly followed by hexadecimal letters.
C9_InvalidAddressFirst ==
    (epc = "return" /\ ~ParseIpAddr(inp.addr).ok)
    => res = [ok |-> FALSE, err |-> ErrInvalidIp]

C9_Witness ==
    /\ epc = "return"
    /\ inp.addr = V4Addr \o <<"d">> /\ inp.sep = <<" ">> /\ inp.toks = << <<"h">> >>
    /\ res = [ok |-> FALSE, err |-> ErrInvalidIp]

\* C10: at the start of every iteration of the line loop line_count is one
\* more than the number of entries collected, so the line number in a parse
\* or read error is the number of entries parsed before it plus one.
C10_LineCountCountsEntries ==
    /\ pc = "loop" => line_count = 1 + Len(entries)
    /\ (pc = "done" /\ ~result.ok /\ result.err.kind \in {"parse", "Error reading file"})
       => result.err.line = Len(entries) + 1

C10_Witness ==
    /\ FailedOnLine
    /\ Len(entries) = 1
    /\ idx = 3

=============================================================================
